---- MODULE Spec2Model ----
(***************************************************************************)
(* Elevation-statistics pipeline of hikea (src/src/commands/suggest.rs):   *)
(* embed_from_gpx, approximate_elevation_points,                           *)
(* find_maximum_extremum_between and get_projection_dist.                  *)
(*                                                                         *)
(* Numbers.  The code computes in f64; the model computes in exact         *)
(* integer arithmetic.  Elevations are whole metres.  Waypoints lie on one *)
(* meridian and `lat` is the position along it in whole metres, so the     *)
(* haversine distance of two waypoints is the absolute difference of their *)
(* positions.  Every comparison the code makes on a quotient or on a       *)
(* square root is made on the cross-multiplied / squared integers, so no   *)
(* rounding is introduced; the f64 special values that the code can        *)
(* produce (x/0 = +-inf, 0/0 = NaN) are modelled by their comparison       *)
(* results.                                                                *)
(***************************************************************************)
EXTENDS Integers, Sequences, FiniteSets, TLC

VARIABLES
    track,         \* the parsed GPX track: a sequence of segments of waypoints
    pc,            \* position inside embed_from_gpx
    points,        \* elevation_points
    length,        \* let length (line 175)
    gains,         \* let mut gains
    losses,        \* let mut losses
    max_altitude,  \* let mut max_altitude
    min_altitude,  \* let mut min_altitude
    avg,           \* let mut avg = (sum, count)
    approx,        \* the return of approximate_elevation_points: "none" before
                   \* it, then Ok(false) of line 544 or 569, or Ok(true) of 594
    agg_i,         \* index the aggregation loop looks at next
    prev,          \* index of prev_elevation_point
    work,          \* spans find_maximum_extremum_between has still to scan
    web            \* AppState.alltrails_message_on and the upload requests

vars == <<track, pc, points, length, gains, losses, max_altitude,
          min_altitude, avg, approx, agg_i, prev, work, web>>

-----------------------------------------------------------------------------
(* Bounds of the model and the value sets inputs are drawn from.           *)

MaxPts == 4
MaxSplitPts == 3
MaxOscPts == 8
MaxLongPts == 5

Lats == {0, 20}
Elevs == {-10, 0, 10, 20}

\* f64::MAX, the start value of min_altitude: larger than every elevation.
F64Max == 1000000

SLOPE_THRESHOLD == 70
ELE_THRESHOLD == 7

Abs(x) == IF x < 0 THEN -x ELSE x

Waypoints ==
    {[lat |-> l, ele |-> e, has_ele |-> TRUE] : l \in Lats, e \in Elevs}
    \cup {[lat |-> 0, ele |-> 0, has_ele |-> FALSE]}

\* The waypoint sequences of n waypoints.
WpSeqs(n) == [1..n -> Waypoints]

\* A track has no segment, one segment of up to MaxPts waypoints, or two
\* segments of up to MaxSplitPts waypoints together, cut anywhere (also
\* before the first and after the last waypoint).
IsTrack(t) ==
    \/ t = <<>>
    \/ \E n \in 0..MaxPts : \E w \in WpSeqs(n) : t = <<w>>
    \/ \E n \in 0..MaxSplitPts : \E w \in WpSeqs(n) : \E c \in 0..n :
           t = <<SubSeq(w, 1, c), SubSeq(w, c + 1, n)>>

-----------------------------------------------------------------------------
(* Geometry.                                                               *)

\* Haversine::distance(p, q) for two waypoints on one meridian.
Haversine(p, q) == Abs(p - q)

RECURSIVE SumTo(_, _)
SumTo(f, n) == IF n = 0 THEN 0 ELSE f[n] + SumTo(f, n - 1)

\* LineString length: the hops between consecutive points of one segment.
SegmentLength(seg) ==
    IF Len(seg) < 2 THEN 0
    ELSE SumTo([i \in 1..(Len(seg) - 1) |-> Haversine(seg[i].lat, seg[i + 1].lat)],
               Len(seg) - 1)

\* track.multilinestring().length::<Haversine>(): one LineString per segment,
\* the length of a MultiLineString is the sum of its LineStrings' lengths.
MultiLineLength(t) ==
    SumTo([s \in 1..Len(t) |-> SegmentLength(t[s])], Len(t))

RECURSIVE Flatten(_)
Flatten(t) == IF t = <<>> THEN <<>> ELSE Head(t) \o Flatten(Tail(t))

\* segments.iter().flat_map(|s| s.points.windows(2)): the pairs of adjacent
\* waypoints of each segment, segment after segment.
SegWindows(seg) ==
    IF Len(seg) < 2 THEN <<>>
    ELSE [i \in 1..(Len(seg) - 1) |-> <<seg[i], seg[i + 1]>>]

RECURSIVE Windows(_)
Windows(t) == IF t = <<>> THEN <<>> ELSE SegWindows(Head(t)) \o Windows(Tail(t))

-----------------------------------------------------------------------------
(* Distance annotation and raw statistics (embed_from_gpx, lines 174-238). *)

ElevationPoint(d, e, x, s, p) ==
    [distance |-> d, elevation |-> e, extremum |-> x, survived |-> s, point |-> p]

\* Faulty variant of InputError: only the waypoints of the first segment are
\* asked for their elevation.
InputErrorFirstSegmentOnly(t) ==
    \/ Len(t) = 0
    \/ Len(t[1]) = 0
    \/ \E i \in 1..Len(t[1]) : ~t[1][i].has_ele

\* The `?` exits of lines 181-217: a waypoint without elevation, a track
\* without segments, a first segment without points.
InputError(t) ==
    \/ \E i \in 1..Len(Flatten(t)) : ~Flatten(t)[i].has_ele
    \/ Len(t) = 0
    \/ Len(t[1]) = 0

\* The loop of lines 181-195 over every waypoint of every segment.
RECURSIVE RawStats(_, _, _)
RawStats(wps, i, acc) ==
    IF i > Len(wps) THEN acc
    ELSE LET e == wps[i].ele
         IN  RawStats(wps, i + 1,
                 [sum |-> acc.sum + e,
                  count |-> acc.count + 1,
                  max |-> IF acc.max < e THEN e ELSE acc.max,
                  min |-> IF acc.min > e THEN e ELSE acc.min])

\* The try_fold of lines 218-238: one ElevationPoint per window, carrying
\* the running distance.
RECURSIVE FoldWindows(_, _, _, _)
FoldWindows(ws, i, pts, distance) ==
    IF i > Len(ws) THEN pts
    ELSE LET d == distance + Haversine(ws[i][1].lat, ws[i][2].lat)
         IN  FoldWindows(ws, i + 1,
                 Append(pts, ElevationPoint(d, ws[i][2].ele, FALSE, FALSE, ws[i][2].lat)),
                 d)

\* elevation_points as line 238 leaves it.
Annotated(t) ==
    FoldWindows(Windows(t), 1,
        <<ElevationPoint(0, t[1][1].ele, TRUE, FALSE, t[1][1].lat)>>, 0)

-----------------------------------------------------------------------------
(* approximate_elevation_points (lines 524-595).                           *)

\* Faulty variant of Stage1Keeps: the test is not strict.
Stage1KeepsNonStrict(prev_ele, ele, ele_next) ==
    (ele - prev_ele) * (ele_next - ele) >= 0

\* Line 535: (ele - prev_ele) * (ele_next - ele) > 0.0
Stage1Keeps(prev_ele, ele, ele_next) ==
    (ele - prev_ele) * (ele_next - ele) > 0

\* Faulty variant of Stage1Loop: each point is compared with its immediate
\* neighbour instead of the last survivor.
RECURSIVE Stage1LoopNeighbour(_, _, _, _)
Stage1LoopNeighbour(pts, i, last_survived, survived_count) ==
    IF i > Len(pts) - 1 THEN [points |-> pts, survived_count |-> survived_count]
    ELSE IF Stage1Keeps(pts[i - 1].elevation, pts[i].elevation,
                        pts[i + 1].elevation)
         THEN Stage1LoopNeighbour([pts EXCEPT ![i].survived = TRUE], i + 1, i,
                                  survived_count + 1)
         ELSE Stage1LoopNeighbour(pts, i + 1, last_survived, survived_count)

\* Lines 526-540: for i in 1..points.len() - 1 (0-based), here 2..Len-1.
RECURSIVE Stage1Loop(_, _, _, _)
Stage1Loop(pts, i, last_survived, survived_count) ==
    IF i > Len(pts) - 1 THEN [points |-> pts, survived_count |-> survived_count]
    ELSE IF Stage1Keeps(pts[last_survived].elevation, pts[i].elevation,
                        pts[i + 1].elevation)
         THEN Stage1Loop([pts EXCEPT ![i].survived = TRUE], i + 1, i,
                         survived_count + 1)
         ELSE Stage1Loop(pts, i + 1, last_survived, survived_count)

\* Lines 526-542: the loop, then the last point is forced and counted.
Stage1Pass(pts) ==
    LET r == Stage1Loop(pts, 2, 1, 0)
    IN  [points |-> [r.points EXCEPT ![Len(pts)].survived = TRUE],
         survived_count |-> r.survived_count + 1]

\* Faulty variant of TooSteep: the slope is compared without abs(), so a
\* steep descent passes.
TooSteepNoAbs(ele, prev_ele, dist) ==
    IF dist = 0 THEN ele > prev_ele
    ELSE (ele - prev_ele) * 100 > SLOPE_THRESHOLD * dist

\* Lines 560-561: slope = (ele - prev_ele) * 100.0 / dist; slope.abs() > 70.
\* dist = 0 gives +-inf (steeper than any threshold) unless the elevations
\* are equal, which gives NaN, and NaN > 70.0 is false.
TooSteep(ele, prev_ele, dist) ==
    IF dist = 0 THEN ele # prev_ele
    ELSE Abs(ele - prev_ele) * 100 > SLOPE_THRESHOLD * dist

\* Faulty variant of Stage2Loop: a point is counted before its slope is
\* tested.
RECURSIVE Stage2LoopCountsFirst(_, _, _, _)
Stage2LoopCountsFirst(pts, i, last_survived, survived_count) ==
    IF i > Len(pts) - 1 THEN [points |-> pts, survived_count |-> survived_count]
    ELSE IF ~pts[i].survived
         THEN Stage2LoopCountsFirst(pts, i + 1, last_survived, survived_count)
         ELSE IF TooSteep(pts[i].elevation, pts[last_survived].elevation,
                          Haversine(pts[i].point, pts[last_survived].point))
              THEN Stage2LoopCountsFirst([pts EXCEPT ![i].survived = FALSE], i + 1,
                                         last_survived, survived_count + 1)
              ELSE Stage2LoopCountsFirst(pts, i + 1, i, survived_count + 1)

\* Lines 549-567.
RECURSIVE Stage2Loop(_, _, _, _)
Stage2Loop(pts, i, last_survived, survived_count) ==
    IF i > Len(pts) - 1 THEN [points |-> pts, survived_count |-> survived_count]
    ELSE IF ~pts[i].survived
         THEN Stage2Loop(pts, i + 1, last_survived, survived_count)
         ELSE IF TooSteep(pts[i].elevation, pts[last_survived].elevation,
                          Haversine(pts[i].point, pts[last_survived].point))
              THEN Stage2Loop([pts EXCEPT ![i].survived = FALSE], i + 1,
                              last_survived, survived_count)
              ELSE Stage2Loop(pts, i + 1, i, survived_count + 1)

\* Faulty variant of Stage2Pass: the profile is compacted to its survivors
\* before the count is tested.
Stage2PassCompacting(pts) ==
    LET r == Stage2Loop(pts, 2, 1, 0)
    IN  [points |-> SelectSeq(r.points, LAMBDA p : p.survived),
         survived_count |-> r.survived_count]

\* Faulty variant of Stage2Pass: the last point is counted as in Stage 1.
Stage2PassCountingLast(pts) ==
    LET r == Stage2Loop(pts, 2, 1, 0)
    IN  [points |-> r.points, survived_count |-> r.survived_count + 1]

\* Lines 547-567: cursor and counter are reset, nothing is added for the
\* last point.
Stage2Pass(pts) == Stage2Loop(pts, 2, 1, 0)

\* Lines 581-585: the distance of a rebuilt point.  last_survived is the
\* 0-based index of the survivor before it, so the test `last_survived == 0`
\* is `last = 1` here.
RebuiltDistance(pts, i, last) ==
    IF last = 1 THEN 0 ELSE Haversine(pts[i].point, pts[last].point)

\* Lines 576-592.
RECURSIVE RebuildLoop(_, _, _, _)
RebuildLoop(pts, i, last_survived, out) ==
    IF i > Len(pts) THEN out
    ELSE IF ~pts[i].survived THEN RebuildLoop(pts, i + 1, last_survived, out)
         ELSE RebuildLoop(pts, i + 1, i,
                  Append(out, ElevationPoint(RebuiltDistance(pts, i, last_survived),
                                             pts[i].elevation, FALSE, TRUE,
                                             pts[i].point)))

\* Faulty variant of Rebuild: the first point is not forced.
RebuildFirstNotForced(pts) ==
    RebuildLoop([pts EXCEPT ![Len(pts)].survived = TRUE], 1, 1, <<>>)

\* Lines 572-593.
Rebuild(pts) ==
    RebuildLoop([pts EXCEPT ![1].survived = TRUE, ![Len(pts)].survived = TRUE],
                1, 1, <<>>)

-----------------------------------------------------------------------------
(* get_projection_dist and find_maximum_extremum_between (lines 506-631).  *)
(*                                                                         *)
(* A deviation is the square root of a rational.  It is kept as the record *)
(* [a, b, m] that stands for sqrt(a * b / m), with a, b >= 0 and m > 0,    *)
(* and two deviations are compared through their squares.  Products that   *)
(* could leave the integer range are compared by continued fractions.      *)

\* n1 / d1 > n2 / d2 for n1, n2 >= 0 and d1, d2 > 0.
RECURSIVE FracGT(_, _, _, _)
FracGT(n1, d1, n2, d2) ==
    LET q1 == n1 \div d1
        q2 == n2 \div d2
        r1 == n1 % d1
        r2 == n2 % d2
    IN  IF q1 # q2 THEN q1 > q2
        ELSE IF r1 = 0 THEN FALSE
        ELSE IF r2 = 0 THEN TRUE
        ELSE FracGT(d2, r2, d1, r1)

\* a * b > c * d for a, b, c, d >= 0.
ProdGT(a, b, c, d) ==
    IF a = 0 \/ b = 0 THEN FALSE
    ELSE IF c = 0 \/ d = 0 THEN TRUE
    ELSE FracGT(a, d, c, b)

\* u > v for two deviations: u.a * u.b * v.m > v.a * v.b * u.m.  Within one
\* span every perpendicular distance has the chord's m and every other
\* deviation (a distance to an end of the chord, the threshold) has m = 1.
DevGT(u, v) ==
    IF u.m = v.m THEN ProdGT(u.a, u.b, v.a, v.b)
    ELSE IF v.m = 1 /\ v.b = 1 THEN ProdGT(u.a, u.b, v.a, u.m)
    ELSE IF u.m = 1 /\ u.b = 1 THEN ProdGT(u.a, v.m, v.a, v.b)
    ELSE u.a * u.b * v.m > v.a * v.b * u.m

\* The f64 constant d as a deviation.
DevOf(d) == [a |-> d * d, b |-> 1, m |-> 1]

\* Lines 506-521.  In the third branch the returned distance is the one from
\* (x, y) to the foot of the perpendicular on the line from-to, whose square
\* is cross^2 / m_dist with cross the cross product of (to - from) and
\* ((x, y) - from).
get_projection_dist(x, y, fromx, fromy, tox, toy) ==
    LET m_dist == (fromx - tox) * (fromx - tox) + (fromy - toy) * (fromy - toy)
        projection == (tox - fromx) * (x - fromx) + (toy - fromy) * (y - fromy)
        cross == Abs((tox - fromx) * (y - fromy) - (toy - fromy) * (x - fromx))
    IN  IF projection < 0
        THEN [a |-> (fromx - x) * (fromx - x) + (fromy - y) * (fromy - y),
              b |-> 1, m |-> 1]
        ELSE IF projection >= m_dist
        THEN [a |-> (tox - x) * (tox - x) + (toy - y) * (toy - y),
              b |-> 1, m |-> 1]
        ELSE IF cross = 0 THEN [a |-> 0, b |-> 1, m |-> m_dist]
        ELSE [a |-> cross, b |-> cross, m |-> m_dist]

\* Faulty variant of ScanFrom: the scan starts one index late.
ScanFromSkip(start) == start + 2

\* Line 611: the first index the scan of a span looks at.
ScanFrom(start) == start + 1

\* Faulty variant of ScanSpan: a deviation equal to the largest so far also
\* moves max, so the last index of largest deviation is returned.
RECURSIVE ScanSpanLastMax(_, _, _, _, _, _)
ScanSpanLastMax(pts, start, end, i, max, max_diff) ==
    IF i >= end THEN max
    ELSE LET md == get_projection_dist(pts[i].distance, pts[i].elevation,
                                       pts[start].distance, pts[start].elevation,
                                       pts[end].distance, pts[end].elevation)
         IN  IF ~DevGT(max_diff, md)
             THEN ScanSpanLastMax(pts, start, end, i + 1, i, md)
             ELSE ScanSpanLastMax(pts, start, end, i + 1, max, max_diff)

\* Lines 609-624: the scan for the first index of largest deviation above
\* the threshold; returns start when there is none.
RECURSIVE ScanSpan(_, _, _, _, _, _)
ScanSpan(pts, start, end, i, max, max_diff) ==
    IF i >= end THEN max
    ELSE LET md == get_projection_dist(pts[i].distance, pts[i].elevation,
                                       pts[start].distance, pts[start].elevation,
                                       pts[end].distance, pts[end].elevation)
         IN  IF DevGT(md, max_diff)
             THEN ScanSpan(pts, start, end, i + 1, i, md)
             ELSE ScanSpan(pts, start, end, i + 1, max, max_diff)

MaxOfSpan(pts, start, end) ==
    ScanSpan(pts, start, end, ScanFrom(start), start, DevOf(ELE_THRESHOLD))

\* Faulty variant of ChildSpans: the right span starts one index early.
ChildSpansOverlap(start, max, end) == <<<<start, max>>, <<max - 1, end>>>>

\* Lines 627-628: the two spans the recursion continues on.
ChildSpans(start, max, end) == <<<<start, max>>, <<max, end>>>>

\* Lines 598-631.
RECURSIVE find_maximum_extremum_between(_, _, _)
find_maximum_extremum_between(start, end, pts) ==
    LET max == MaxOfSpan(pts, start, end)
    IN  IF max # start
        THEN LET ch == ChildSpans(start, max, end)
                 p1 == [pts EXCEPT ![max].extremum = TRUE]
                 p2 == find_maximum_extremum_between(ch[1][1], ch[1][2], p1)
             IN  find_maximum_extremum_between(ch[2][1], ch[2][2], p2)
        ELSE pts

\* Faulty variant of ProcessSpan: the span on the right of the split is
\* forgotten.
ProcessSpanLeftOnly(pts, wk, k) ==
    LET start == wk[k][1]
        end == wk[k][2]
        max == MaxOfSpan(pts, start, end)
        rest == SubSeq(wk, k + 1, Len(wk))
    IN  IF max # start
        THEN [points |-> [pts EXCEPT ![max].extremum = TRUE],
              work |-> SubSeq(wk, 1, k - 1) \o <<<<start, max>>>> \o rest]
        ELSE [points |-> pts, work |-> SubSeq(wk, 1, k - 1) \o rest]

\* Lines 605-629 for one call: the k-th pending span is scanned; if it is
\* split, the split point is flagged and the two calls of lines 627-628 take
\* its place, the left one first.
ProcessSpan(pts, wk, k) ==
    LET start == wk[k][1]
        end == wk[k][2]
        max == MaxOfSpan(pts, start, end)
        rest == SubSeq(wk, k + 1, Len(wk))
    IN  IF max # start
        THEN [points |-> [pts EXCEPT ![max].extremum = TRUE],
              work |-> SubSeq(wk, 1, k - 1) \o ChildSpans(start, max, end) \o rest]
        ELSE [points |-> pts, work |-> SubSeq(wk, 1, k - 1) \o rest]

\* Faulty variant of ForceEnds: the ends are left as they are.
ForceEndsNothing(pts) == pts

\* Faulty variant of ForceEnds: only the first point is flagged.
ForceEndsFirstOnly(pts) ==
    [pts EXCEPT ![1].extremum = TRUE]

\* Faulty variant of ForceEnds: only the last point is flagged.
ForceEndsLastOnly(pts) ==
    [pts EXCEPT ![Len(pts)].extremum = TRUE]

\* Lines 241-248: both ends of the profile are flagged.
ForceEnds(pts) ==
    [pts EXCEPT ![Len(pts)].extremum = TRUE, ![1].extremum = TRUE]

\* Faulty variant of Accumulate: a descent is added with its sign.
AccumulateNoAbs(acc, prev_ele, ele) ==
    LET diff == ele - prev_ele
    IN  IF diff > 0 THEN [gains |-> acc.gains + diff, losses |-> acc.losses]
        ELSE [gains |-> acc.gains, losses |-> acc.losses + diff]

\* Faulty variant of Accumulate: the difference is taken the wrong way round.
AccumulateSwapped(acc, prev_ele, ele) ==
    LET diff == prev_ele - ele
    IN  IF diff > 0 THEN [gains |-> acc.gains + diff, losses |-> acc.losses]
        ELSE [gains |-> acc.gains, losses |-> acc.losses + Abs(diff)]

\* Faulty variant of Accumulate: every difference is added to both totals.
AccumulateBoth(acc, prev_ele, ele) ==
    LET diff == ele - prev_ele
    IN  [gains |-> acc.gains + Abs(diff), losses |-> acc.losses + Abs(diff)]

\* Lines 255-261: one turn of the aggregation loop on the extremum p, with
\* acc = [gains, losses].
Accumulate(acc, prev_ele, ele) ==
    LET diff == ele - prev_ele
    IN  IF diff > 0 THEN [gains |-> acc.gains + diff, losses |-> acc.losses]
        ELSE [gains |-> acc.gains, losses |-> acc.losses + Abs(diff)]

\* Faulty variant of NextPrev: the previous extremum is never advanced.
NextPrevStale(old, i) == old

\* Line 261: prev_elevation_point = elevation_point.
NextPrev(old, i) == i

-----------------------------------------------------------------------------
(* embed_from_gpx from line 174 on, one action per stage.                  *)

\* The admins using the upload flow and the ids their links carry.
Admins == {"a1", "a2"}
ChannelIds == {1, 2}
MessageIds == {1, 2}

\* main.rs line 138: both AtomicU64 start at 0; no request has been made.
WebInit ==
    [channel |-> 0,
     message |-> 0,
     at |-> [a \in Admins |-> "idle"],
     selected |-> [a \in Admins |-> <<0, 0>>],
     loaded |-> [a \in Admins |-> <<0, 0>>],
     edited |-> [a \in Admins |-> <<0, 0>>]]

InitLocals ==
    /\ pc = "start"
    /\ points = <<>>
    /\ length = 0
    /\ gains = 0
    /\ losses = 0
    /\ max_altitude = 0
    /\ min_altitude = F64Max
    /\ avg = [sum |-> 0, count |-> 0]
    /\ approx = "none"
    /\ agg_i = 0
    /\ prev = 0
    /\ work = <<>>
    /\ web = WebInit

Init ==
    /\ IsTrack(track)
    /\ InitLocals

\* Lines 174-238.
Annotate ==
    /\ pc = "start"
    /\ IF InputError(track)
       THEN /\ pc' = "error"
            /\ UNCHANGED <<points, length, max_altitude, min_altitude, avg>>
       ELSE LET st == RawStats(Flatten(track), 1,
                               [sum |-> 0, count |-> 0, max |-> 0, min |-> F64Max])
            IN  /\ pc' = "stage1"
                /\ length' = MultiLineLength(track)
                /\ max_altitude' = st.max
                /\ min_altitude' = st.min
                /\ avg' = [sum |-> st.sum, count |-> st.count]
                /\ points' = Annotated(track)
    /\ UNCHANGED <<web, work, track, gains, losses, approx, agg_i, prev>>

\* Faulty variant of Stage1: the return of line 544 is missing.
Stage1NeverExits ==
    /\ pc = "stage1"
    /\ points' = Stage1Pass(points).points
    /\ pc' = "stage2"
    /\ UNCHANGED <<web, work, track, length, gains, losses, max_altitude, min_altitude,
                   avg, approx, agg_i, prev>>

\* Lines 526-545.
Stage1 ==
    /\ pc = "stage1"
    /\ LET r == Stage1Pass(points)
       IN  /\ points' = r.points
           /\ IF r.survived_count < 2
              THEN pc' = "force" /\ approx' = "false@544"
              ELSE pc' = "stage2" /\ approx' = approx
    /\ UNCHANGED <<web, work, track, length, gains, losses, max_altitude, min_altitude,
                   avg, agg_i, prev>>

\* Lines 547-570.
Stage2 ==
    /\ pc = "stage2"
    /\ LET r == Stage2Pass(points)
       IN  /\ points' = r.points
           /\ IF r.survived_count < 2
              THEN pc' = "force" /\ approx' = "false@569"
              ELSE pc' = "rebuild" /\ approx' = approx
    /\ UNCHANGED <<web, work, track, length, gains, losses, max_altitude, min_altitude,
                   avg, agg_i, prev>>

\* Lines 572-594.
Rebuilder ==
    /\ pc = "rebuild"
    /\ points' = Rebuild(points)
    /\ approx' = "true@594"
    /\ pc' = "force"
    /\ UNCHANGED <<web, work, track, length, gains, losses, max_altitude, min_altitude,
                   avg, agg_i, prev>>

\* Lines 241-248.
Force ==
    /\ pc = "force"
    /\ points' = ForceEnds(points)
    /\ pc' = "select"
    /\ UNCHANGED <<web, work, track, length, gains, losses, max_altitude, min_altitude,
                   avg, approx, agg_i, prev>>

\* Lines 249-253: the selector runs on the whole profile, then the
\* aggregation loop is set up on the first point.
Select ==
    /\ pc = "select"
    /\ points' = find_maximum_extremum_between(1, Len(points), points)
    /\ prev' = 1
    /\ agg_i' = 2
    /\ pc' = "aggregate"
    /\ UNCHANGED <<web, work, track, length, gains, losses, max_altitude, min_altitude,
                   avg, approx>>

\* The extrema the loop of line 254 has not visited yet.
Pending == {i \in agg_i..Len(points) : points[i].extremum}

NextExtremum == CHOOSE i \in Pending : \A j \in Pending : i <= j

\* Lines 254-262: one turn of the loop.
Aggregate ==
    /\ pc = "aggregate"
    /\ Pending # {}
    /\ LET i == NextExtremum
           acc == Accumulate([gains |-> gains, losses |-> losses],
                             points[prev].elevation, points[i].elevation)
       IN  /\ gains' = acc.gains
           /\ losses' = acc.losses
           /\ prev' = NextPrev(prev, i)
           /\ agg_i' = i + 1
    /\ UNCHANGED <<web, work, track, pc, points, length, max_altitude, min_altitude, avg,
                   approx>>

\* Lines 264-312: the loop is over and the embed is built from the totals.
Finish ==
    /\ pc = "aggregate"
    /\ Pending = {}
    /\ pc' = "done"
    /\ UNCHANGED <<web, work, track, points, length, gains, losses, max_altitude,
                   min_altitude, avg, approx, agg_i, prev>>

Next ==
    \/ Annotate
    \/ Stage1
    \/ Stage2
    \/ Rebuilder
    \/ Force
    \/ Select
    \/ Aggregate
    \/ Finish

Spec == Init /\ [][Next]_vars

-----------------------------------------------------------------------------
(* Vocabulary of the properties.                                           *)

Annotation == {"stage1", "stage2", "rebuild", "force", "select", "aggregate", "done"}

Extrema(pts) == {i \in 1..Len(pts) : pts[i].extremum}

SetMin(S) == CHOOSE x \in S : \A y \in S : x <= y
SetMax(S) == CHOOSE x \in S : \A y \in S : x >= y

\* The sum of the haversine distances between consecutive waypoints of the
\* track read as one sequence, segment after segment.
FlatLength(t) == SegmentLength(Flatten(t))

\* Cumulative distance of the i-th waypoint of the flattened track.
FlatDistance(t, i) == SegmentLength(SubSeq(Flatten(t), 1, i))

-----------------------------------------------------------------------------
(* C1.  For every accepted track the reported length equals the sum of the *)
(* haversine distances between consecutive raw waypoints, whatever         *)
(* approximate_elevation_points returns.  Stated on the track read as one  *)
(* sequence of waypoints, the hop between two segments included.           *)
C1_LengthIsSumOfHops ==
    pc \in Annotation => length = FlatLength(track)

(* C2.  For a track split across segments the annotated sequence holds one *)
(* point per waypoint of every segment, in order, and the cumulative       *)
(* distance runs over every consecutive pair, the hop between two segments *)
(* included.                                                               *)
C2_OnePointPerWaypoint ==
    pc = "stage1" =>
        /\ Len(points) = Len(Flatten(track))
        /\ \A i \in 1..Len(points) :
               /\ points[i].elevation = Flatten(track)[i].ele
               /\ points[i].point = Flatten(track)[i].lat
               /\ points[i].distance = FlatDistance(track, i)

(* C3.  After the aggregation, on a profile with at least 2 extrema, gain  *)
(* minus loss equals the elevation of the last extremum minus the          *)
(* elevation of the first extremum.                                        *)
C3_Telescoping ==
    (pc = "done" /\ Cardinality(Extrema(points)) >= 2) =>
        gains - losses = points[SetMax(Extrema(points))].elevation
                         - points[SetMin(Extrema(points))].elevation

C3_Witness ==
    /\ pc = "done"
    /\ Cardinality(Extrema(points)) >= 3
    /\ gains > 0
    /\ losses > 0

(* C4.  gains >= 0 and losses >= 0 in every state of the run, the          *)
(* aggregation loop included, and no step decreases either of them.        *)
C4_NonNegativeMonotone ==
    /\ [](gains >= 0 /\ losses >= 0)
    /\ [][gains' >= gains /\ losses' >= losses]_vars

C4_Witness ==
    /\ pc = "aggregate"
    /\ Pending # {}
    /\ gains > 0
    /\ losses > 0

(* C5.  From the entry of find_maximum_extremum_between on, the first and  *)
(* the last point of the profile are flagged extremum, on the rebuilt      *)
(* profile as on the original sequence of an insufficient-relief exit.     *)
C5_EndsAreExtrema ==
    pc \in {"select", "aggregate", "done"} =>
        /\ Len(points) >= 1
        /\ points[1].extremum
        /\ points[Len(points)].extremum

C5_Witness ==
    /\ pc = "select"
    /\ approx = "true@594"
    /\ Len(points) >= 4

(* C6.  When the slope pass of Stage 2 is over, every interior survivor is *)
(* not steeper than 70 percent against the interior survivor before it,    *)
(* and the first interior survivor against point 0: with d the haversine   *)
(* distance of the two points, |elevation difference| * 100 <= 70 * d, and *)
(* two points at distance 0 have the same elevation.                       *)
InteriorSurvivors(pts) == {i \in 2..(Len(pts) - 1) : pts[i].survived}

SurvivorBefore(pts, j) ==
    IF \E i \in InteriorSurvivors(pts) : i < j
    THEN SetMax({i \in InteriorSurvivors(pts) : i < j})
    ELSE 1

GradeAtMost70(p, q) ==
    LET d == Abs(p.point - q.point)
        h == Abs(p.elevation - q.elevation)
    IN  IF d = 0 THEN h = 0 ELSE h * 100 <= 70 * d

AfterSlopePass == pc = "rebuild" \/ (pc = "force" /\ approx = "false@569")

C6_SurvivorsNotSteep ==
    AfterSlopePass =>
        \A j \in InteriorSurvivors(points) :
            GradeAtMost70(points[j], points[SurvivorBefore(points, j)])

C6_Witness ==
    /\ AfterSlopePass
    /\ Cardinality(InteriorSurvivors(points)) >= 2

(* C7.  Idempotence of the selector: run it once more, from the two       *)
(* forced ends, on the sequence of the points it flagged (distance and     *)
(* elevation kept, interior flags cleared); it flags every point of that   *)
(* sequence again and nothing else, so the extrema-only profile comes back *)
(* unchanged.                                                              *)
RECURSIVE FlaggedFrom(_, _)
FlaggedFrom(pts, i) ==
    IF i > Len(pts) THEN <<>>
    ELSE IF pts[i].extremum THEN <<pts[i]>> \o FlaggedFrom(pts, i + 1)
    ELSE FlaggedFrom(pts, i + 1)

ExtremaOnly(pts) == FlaggedFrom(pts, 1)

Unflagged(pts) == [i \in 1..Len(pts) |-> [pts[i] EXCEPT !.extremum = FALSE]]

SecondRun(pts) ==
    find_maximum_extremum_between(1, Len(pts), ForceEnds(Unflagged(pts)))

C7_SelectorIdempotent ==
    pc \in {"aggregate", "done"} =>
        SecondRun(ExtremaOnly(points)) = ExtremaOnly(points)

C7_Witness ==
    /\ pc = "aggregate"
    /\ agg_i = 2
    /\ Cardinality(Extrema(points)) >= 3
    /\ Cardinality(Extrema(points)) < Len(points)

-----------------------------------------------------------------------------
(* Scenario B: 10 evenly spaced waypoints rising 100, 200, ..., 1000.      *)

\* Spacings on both sides of 100 * 100 / 70 = 142.86 m, under which every
\* interior point is steeper than SLOPE_THRESHOLD against point 0.
SpacingsB == {1, 10, 50, 100, 120, 140, 141, 142, 143, 144, 150, 200, 500,
              1000, 2000, 5000}

TrackB(s) ==
    <<[i \in 1..10 |-> [lat |-> (i - 1) * s, ele |-> 100 * i, has_ele |-> TRUE]]>>

InitB ==
    /\ \E s \in SpacingsB : track = TrackB(s)
    /\ InitLocals

SpecB == InitB /\ [][Next]_vars

(* C9.  Scenario B, extrema: for every spacing only the first and the last *)
(* point end up flagged extremum, no interior point is.                    *)
C9_OnlyEndsFlagged ==
    pc = "done" => Extrema(points) = {1, Len(points)}

(* C10.  Scenario B, totals: for every spacing, whether the slope filter   *)
(* keeps the interior points or demotes them all, gain = 900 and loss = 0. *)
C10_Gain900Loss0 ==
    pc = "done" => (gains = 900 /\ losses = 0)

C10_Witness ==
    /\ pc = "done"
    /\ approx = "true@594"
    /\ Cardinality(Extrema(points)) > 2
    /\ gains = 900

-----------------------------------------------------------------------------
(* Scenario D: V-shaped tracks, strictly down to a single lowest point and *)
(* strictly up again to the start elevation.                               *)

LevelsD == {0, 5, 10, 20, 30}
StepsD == {10, 40}

RECURSIVE SortAsc(_)
SortAsc(S) ==
    IF S = {} THEN <<>> ELSE <<SetMin(S)>> \o SortAsc(S \ {SetMin(S)})

RECURSIVE SortDesc(_)
SortDesc(S) ==
    IF S = {} THEN <<>> ELSE <<SetMax(S)>> \o SortDesc(S \ {SetMax(S)})

\* Elevations top, down through `down`, bottom, up through `up`, top.
ElevsD(top, bottom, down, up) ==
    <<top>> \o SortDesc(down) \o <<bottom>> \o SortAsc(up) \o <<top>>

\* The waypoints with elevations es, the hop before waypoint i + 1 being
\* steps[i] metres long.
TrackD(es, steps) ==
    <<[i \in 1..Len(es) |->
          [lat |-> SumTo(steps, i - 1), ele |-> es[i], has_ele |-> TRUE]]>>

InitD ==
    /\ \E top \in LevelsD, bottom \in LevelsD :
           /\ bottom < top
           /\ \E down \in SUBSET {l \in LevelsD : bottom < l /\ l < top},
                 up \in SUBSET {l \in LevelsD : bottom < l /\ l < top} :
                   LET es == ElevsD(top, bottom, down, up)
                   IN  \E steps \in [1..(Len(es) - 1) -> StepsD] :
                           track = TrackD(es, steps)
    /\ InitLocals

SpecD == InitD /\ [][Next]_vars

TopD == track[1][1].ele
BottomD == SetMin({track[1][i].ele : i \in 1..Len(track[1])})
DepthD == TopD - BottomD

LowestExtremum == SetMin({points[i].elevation : i \in Extrema(points)})

(* C8.  Scenario D as stated: every V-shaped track ends with exactly 3     *)
(* extrema (start, valley bottom, end) and gain = loss = depth.            *)
C8_ThreeExtremaFullDepth ==
    pc = "done" =>
        /\ Cardinality(Extrema(points)) = 3
        /\ \E i \in Extrema(points) : points[i].elevation = BottomD
        /\ gains = DepthD
        /\ losses = DepthD

(* C8, amended.  Every V-shaped track ends with the start and the end      *)
(* flagged extremum, and gain = loss = start elevation minus the lowest    *)
(* elevation among the flagged extrema.  That is at most the depth of the  *)
(* valley, and it is the depth exactly when the valley bottom is flagged.  *)
C8_GainEqualsLossUpToDepth ==
    pc = "done" =>
        /\ {1, Len(points)} \subseteq Extrema(points)
        /\ gains = losses
        /\ gains = TopD - LowestExtremum
        /\ gains <= DepthD
        /\ (gains = DepthD) <=> (\E i \in Extrema(points) : points[i].elevation = BottomD)

C8_Witness ==
    /\ pc = "done"
    /\ approx = "true@594"
    /\ gains > 0
    /\ gains < DepthD

-----------------------------------------------------------------------------
(* Scenarios A, B and C run side by side: A is two waypoints at 100 and    *)
(* 200 m, C a flat track whose samples alternate between +1 and -1 m.      *)

SeparationsA == {1, 10, 100, 1000, 10000}
SpacingsC == {1, 5, 100}

TrackA(s) ==
    <<<<[lat |-> 0, ele |-> 100, has_ele |-> TRUE],
        [lat |-> s, ele |-> 200, has_ele |-> TRUE]>>>>

\* n samples s metres apart, the first at elevation first (+1 or -1), each
\* the opposite of the one before.
TrackC(n, first, s) ==
    <<[i \in 1..n |->
          [lat |-> (i - 1) * s,
           ele |-> IF i % 2 = 1 THEN first ELSE -first,
           has_ele |-> TRUE]]>>

IsTrackA == \E s \in SeparationsA : track = TrackA(s)

IsTrackC ==
    \E n \in 3..MaxOscPts, first \in {-1, 1}, s \in SpacingsC :
        track = TrackC(n, first, s)

InitScenarios ==
    /\ \/ IsTrackA
       \/ \E s \in SpacingsB : track = TrackB(s)
       \/ IsTrackC
    /\ InitLocals

SpecScenarios == InitScenarios /\ [][Next]_vars

(* C11.  Scenario A: a track of two points at 100 and 200 m, any non-zero  *)
(* separation, is computed without error and ends with gain = 100,         *)
(* loss = 0 and both points flagged extremum.                              *)
C11_ScenarioA ==
    IsTrackA =>
        /\ pc # "error"
        /\ pc = "done" =>
               /\ gains = 100
               /\ losses = 0
               /\ Len(points) = 2
               /\ Extrema(points) = {1, 2}

C11_Witness ==
    /\ IsTrackA
    /\ pc = "done"
    /\ approx = "false@544"
    /\ gains = 100

(* C12.  Scenario C as stated: every interior sample is unmarked when the  *)
(* filter is over, none of them becomes an extremum, and gain and loss are *)
(* each no larger than the 1 m amplitude.                                  *)
InteriorUnmarked == \A i \in 2..(Len(points) - 1) : ~points[i].survived

C12_OscillationWithinAmplitude ==
    IsTrackC =>
        /\ pc \in {"force", "select", "aggregate", "done"} => InteriorUnmarked
        /\ pc = "done" =>
               /\ Extrema(points) = {1, Len(points)}
               /\ gains <= 1
               /\ losses <= 1

(* C12, amended.  Every interior sample is unmarked when the filter is     *)
(* over and none becomes an extremum; gain and loss are both 0 when the    *)
(* first and the last sample are equal, and otherwise one of them is 0 and *)
(* the other is the 2 m between the two levels.                            *)
C12_OscillationWithinPeakToPeak ==
    IsTrackC =>
        /\ pc \in {"force", "select", "aggregate", "done"} => InteriorUnmarked
        /\ pc = "done" =>
               /\ Extrema(points) = {1, Len(points)}
               /\ Len(points) = Len(track[1])
               /\ gains + losses = Abs(track[1][Len(track[1])].ele - track[1][1].ele)
               /\ gains + losses <= 2
               /\ gains = 0 \/ losses = 0

C12_Witness ==
    /\ IsTrackC
    /\ pc = "done"
    /\ Len(points) >= 6
    /\ losses = 2

-----------------------------------------------------------------------------
(* Rejected inputs and raw statistics, on the tracks of Spec.              *)

Rejected == pc \in {"start", "error"}

NothingComputed ==
    /\ points = <<>>
    /\ length = 0
    /\ gains = 0
    /\ losses = 0
    /\ max_altitude = 0
    /\ min_altitude = F64Max
    /\ avg = [sum |-> 0, count |-> 0]

WaypointCount == Len(Flatten(track))

(* C13.  A track with fewer than 2 waypoints, in particular one whose only *)
(* segment holds exactly one waypoint with an elevation, is rejected: the  *)
(* computation ends in the error exit and no statistics are produced.      *)
C13_TooShortRejected ==
    WaypointCount < 2 => Rejected /\ NothingComputed

MissingElevation ==
    \E k \in 1..Len(track) : \E i \in 1..Len(track[k]) : ~track[k][i].has_ele

NoSegments == track = <<>>

FirstSegmentEmpty == track # <<>> /\ track[1] = <<>>

(* C14.  If any waypoint of any segment lacks an elevation, or the track   *)
(* has no segments, or its first segment has no points, the computation    *)
(* takes the error exit and none of length, gain, loss, minimum, maximum   *)
(* and average is produced.                                                *)
C14_BadInputIsFatal ==
    (MissingElevation \/ NoSegments \/ FirstSegmentEmpty) =>
        Rejected /\ NothingComputed

C14_Witness ==
    /\ pc = "error"
    /\ Len(track) = 2
    /\ track[1] # <<>>
    /\ \A i \in 1..Len(track[1]) : track[1][i].has_ele
    /\ MissingElevation

RawElevations == {Flatten(track)[i].ele : i \in 1..WaypointCount}

RECURSIVE SumOfElevations(_)
SumOfElevations(wps) ==
    IF wps = <<>> THEN 0 ELSE Head(wps).ele + SumOfElevations(Tail(wps))

(* C16.  For every accepted track the reported minimum, maximum and        *)
(* average elevation are the minimum, the maximum and the arithmetic mean  *)
(* (sum over count) of the elevations of all raw waypoints, tracks below   *)
(* sea level included, at every stage after the annotation whichever way   *)
(* the filter goes.                                                        *)
C16_RawStatistics ==
    pc \in Annotation =>
        /\ min_altitude = SetMin(RawElevations)
        /\ max_altitude = SetMax(RawElevations)
        /\ avg.count = WaypointCount
        /\ avg.sum = SumOfElevations(Flatten(track))

-----------------------------------------------------------------------------
(* The filter on longer profiles: the tracks of Spec together with single  *)
(* segments of up to MaxLongPts waypoints 20 m apart.                      *)

LongTrack(es) ==
    <<[i \in 1..Len(es) |->
          [lat |-> 20 * (i - 1), ele |-> es[i], has_ele |-> TRUE]]>>

IsLongTrack(t) ==
    \E n \in 5..MaxLongPts : \E es \in [1..n -> Elevs] : t = LongTrack(es)

InitLong ==
    /\ IsTrack(track) \/ IsLongTrack(track)
    /\ InitLocals

SpecLong == InitLong /\ [][Next]_vars

FellBack == approx \in {"false@544", "false@569"}

(* C15.  When either filter stage reports insufficient relief the          *)
(* computation does not fail: selector and aggregator run, and the         *)
(* sequence they run on has the length, order, elevations, positions and   *)
(* cumulative distances of the annotated sequence.                         *)
C15_FallbackKeepsAnnotation ==
    FellBack =>
        /\ pc \in {"force", "select", "aggregate", "done"}
        /\ Len(points) = Len(Annotated(track))
        /\ \A i \in 1..Len(points) :
               /\ points[i].distance = Annotated(track)[i].distance
               /\ points[i].elevation = Annotated(track)[i].elevation
               /\ points[i].point = Annotated(track)[i].point

C15_Witness ==
    /\ approx = "false@569"
    /\ pc = "done"
    /\ Len(points) = 5
    /\ \E i \in 2..4 : points[i].survived
    /\ \E i \in 2..4 : points[i].extremum

AfterStage1 == pc = "stage2" \/ approx = "false@544"

\* The last survivor before interior index i, the first point if none.
CursorAt(pts, i) == SetMax({1} \cup {j \in 2..(i - 1) : pts[j].survived})

(* C17.  After Stage 1 an interior point i is marked survived iff          *)
(* (elev[i] - elev[cursor]) * (elev[i+1] - elev[i]) > 0, the cursor being  *)
(* the last survivor before i (the first point if there is none); the last *)
(* point is marked survived; and the insufficient-relief exit was taken    *)
(* exactly when the count, forced last point included, is below 2.         *)
C17_Stage1 ==
    AfterStage1 =>
        /\ \A i \in 2..(Len(points) - 1) :
               points[i].survived <=>
                   (points[i].elevation - points[CursorAt(points, i)].elevation)
                       * (points[i + 1].elevation - points[i].elevation) > 0
        /\ points[Len(points)].survived
        /\ approx = "false@544" <=>
               Cardinality(InteriorSurvivors(points)) + 1 < 2

C17_Witness ==
    /\ pc = "stage2"
    /\ Len(points) = 5
    /\ points[2].survived
    /\ ~points[3].survived
    /\ points[4].survived
    /\ points[3].elevation # points[2].elevation

AfterStage2 == pc = "rebuild" \/ approx = "false@569"

(* C18 as stated.  Stage 2 takes the insufficient-relief exit exactly when *)
(* the interior survivors plus the forced last point are fewer than 2, so  *)
(* one interior survivor is enough to reach the rebuilder.                 *)
C18_Stage2CountsLast ==
    AfterStage2 =>
        (approx = "false@569" <=> Cardinality(InteriorSurvivors(points)) + 1 < 2)

(* C18, amended.  Stage 2 takes the insufficient-relief exit exactly when  *)
(* fewer than 2 interior points are survivors after the slope pass; the    *)
(* last point is not counted, so a track left with one interior survivor   *)
(* takes the exit.                                                         *)
C18_Stage2CountsInterior ==
    AfterStage2 =>
        (approx = "false@569" <=> Cardinality(InteriorSurvivors(points)) < 2)

C18_Witness ==
    /\ approx = "false@569"
    /\ pc = "force"
    /\ Cardinality(InteriorSurvivors(points)) = 1
    /\ points[Len(points)].survived

Rebuilt == approx = "true@594"

(* C19.  In the rebuilt sequence the first point has distance 0 and every  *)
(* later point has the haversine distance to the rebuilt point just before *)
(* it.                                                                     *)
C19_RebuiltDistances ==
    Rebuilt =>
        /\ points[1].distance = 0
        /\ \A k \in 2..Len(points) :
               points[k].distance = Haversine(points[k].point, points[k - 1].point)

\* The indices the rebuilder keeps, and the place of index i among them.
Kept(pts) == {1, Len(pts)} \cup {i \in 1..Len(pts) : pts[i].survived}
Rank(S, i) == Cardinality({j \in S : j <= i})

RebuiltFrom(old, new) ==
    /\ Len(new) = Cardinality(Kept(old))
    /\ \A i \in Kept(old) :
           /\ new[Rank(Kept(old), i)].elevation = old[i].elevation
           /\ new[Rank(Kept(old), i)].point = old[i].point
    /\ new[1].elevation = Annotated(track)[1].elevation
    /\ new[1].point = Annotated(track)[1].point
    /\ new[Len(new)].elevation = Annotated(track)[Len(old)].elevation
    /\ new[Len(new)].point = Annotated(track)[Len(old)].point
    /\ Len(old) = Len(Annotated(track))

(* C20.  The rebuilder's step turns the sequence left by Stage 2 into the  *)
(* points still marked survived plus the first and the last point, in      *)
(* their original order with elevation and position unchanged; the first   *)
(* and the last rebuilt point are the first and the last point of the      *)
(* annotated raw sequence.                                                 *)
C20_RebuiltIsSurvivors ==
    [][pc = "rebuild" => RebuiltFrom(points, points')]_vars

C20_Witness ==
    /\ Rebuilt
    /\ pc = "force"
    /\ Len(points) < Len(Annotated(track))

-----------------------------------------------------------------------------
(* The extremum selector's result.                                         *)

Selected == pc \in {"aggregate", "done"}

\* Deviation of point i from the chord joining points s and e.
Deviation(pts, s, e, i) ==
    get_projection_dist(pts[i].distance, pts[i].elevation,
                        pts[s].distance, pts[s].elevation,
                        pts[e].distance, pts[e].elevation)

\* m lies strictly inside the span, deviates by more than 7.0 from its
\* chord, and is the first index of largest deviation in it.
ChosenIn(pts, s, e, m) ==
    /\ s < m /\ m < e
    /\ DevGT(Deviation(pts, s, e, m), DevOf(ELE_THRESHOLD))
    /\ \A j \in (s + 1)..(e - 1) :
           /\ ~DevGT(Deviation(pts, s, e, j), Deviation(pts, s, e, m))
           /\ j < m => DevGT(Deviation(pts, s, e, m), Deviation(pts, s, e, j))

\* Every flagged point inside the span was chosen in a span of a split
\* tree rooted at (s, e).
RECURSIVE SplitTree(_, _, _)
SplitTree(pts, s, e) ==
    LET F == {i \in (s + 1)..(e - 1) : pts[i].extremum}
    IN  F # {} =>
            \E m \in F : /\ ChosenIn(pts, s, e, m)
                         /\ SplitTree(pts, s, m)
                         /\ SplitTree(pts, m, e)

ConsecutiveExtrema(pts) ==
    {se \in Extrema(pts) \X Extrema(pts) :
        /\ se[1] < se[2]
        /\ \A i \in (se[1] + 1)..(se[2] - 1) : ~pts[i].extremum}

(* C21.  After the selector has run, every flagged interior point deviated *)
(* by more than 7.0 from the chord of the span it was chosen in and was    *)
(* the first index of largest deviation there, and between two consecutive *)
(* extrema every point deviates by at most 7.0 from the chord joining      *)
(* them.                                                                   *)
C21_SelectorPostcondition ==
    Selected =>
        /\ SplitTree(points, 1, Len(points))
        /\ \A se \in ConsecutiveExtrema(points) :
               \A i \in (se[1] + 1)..(se[2] - 1) :
                   ~DevGT(Deviation(points, se[1], se[2], i), DevOf(ELE_THRESHOLD))

C21_Witness ==
    /\ pc = "done"
    /\ Len(points) = 5
    /\ Cardinality(Extrema(points)) = 4
    /\ \E i \in 2..4 : ~points[i].extremum

-----------------------------------------------------------------------------
(* The selector call by call.  `work` holds the calls still to be made,    *)
(* the next one first: a call scans its span and, on a split, makes the    *)
(* call for the left span and then the one for the right span.             *)

\* Line 249: the call on the whole profile.
SelectCall ==
    /\ pc = "select"
    /\ work' = <<<<1, Len(points)>>>>
    /\ pc' = "selecting"
    /\ UNCHANGED <<web, track, points, length, gains, losses, max_altitude,
                   min_altitude, avg, approx, agg_i, prev>>

\* Lines 598-631: the next call.
SelectSpan ==
    /\ pc = "selecting"
    /\ work # <<>>
    /\ LET r == ProcessSpan(points, work, 1)
       IN  points' = r.points /\ work' = r.work
    /\ UNCHANGED <<web, track, pc, length, gains, losses, max_altitude,
                   min_altitude, avg, approx, agg_i, prev>>

\* Lines 250-253: the outermost call has returned.
SelectReturn ==
    /\ pc = "selecting"
    /\ work = <<>>
    /\ prev' = 1
    /\ agg_i' = 2
    /\ pc' = "aggregate"
    /\ UNCHANGED <<web, track, points, length, gains, losses, max_altitude,
                   min_altitude, avg, approx, work>>

NextSteps ==
    \/ Annotate
    \/ Stage1
    \/ Stage2
    \/ Rebuilder
    \/ Force
    \/ SelectCall
    \/ SelectSpan
    \/ SelectReturn
    \/ Aggregate
    \/ Finish

SpecSteps == InitLong /\ [][NextSteps]_vars

\* The runs whose end is looked at start before the track is read: single
\* segments of 1, 3 or 4 waypoints 20 m apart, zigzags of 5 waypoints
\* between two levels, a waypoint without elevation, and the track without
\* segments.
LengthsFair == {1, 3, 4}
LevelsZigzag == {-10, 20}

InitFair ==
    /\ track = <<>>
    /\ pc = "idle"
    /\ points = <<>>
    /\ length = 0
    /\ gains = 0
    /\ losses = 0
    /\ max_altitude = 0
    /\ min_altitude = F64Max
    /\ avg = [sum |-> 0, count |-> 0]
    /\ approx = "none"
    /\ agg_i = 0
    /\ prev = 0
    /\ work = <<>>
    /\ web = WebInit

\* Lines 168-172: the first track of the uploaded file.
ReadTrack ==
    /\ pc = "idle"
    /\ \/ \E n \in LengthsFair : \E es \in [1..n -> Elevs] : track' = LongTrack(es)
       \/ \E es \in [1..5 -> LevelsZigzag] : track' = LongTrack(es)
       \/ track' = <<<<[lat |-> 0, ele |-> 0, has_ele |-> FALSE]>>>>
       \/ track' = <<>>
    /\ pc' = "start"
    /\ UNCHANGED <<web, points, length, gains, losses, max_altitude, min_altitude,
                   avg, approx, agg_i, prev, work>>

NextFair == ReadTrack \/ NextSteps

\* embed_from_gpx is one synchronous call: it keeps running until it
\* returns.
FairSteps == InitFair /\ [][NextFair]_vars /\ WF_vars(NextFair)

(* The selector with an explicit work list: the pending spans are taken in *)
(* any order.                                                              *)
SelectAnySpan ==
    /\ pc = "selecting"
    /\ \E k \in 1..Len(work) :
           LET r == ProcessSpan(points, work, k)
           IN  points' = r.points /\ work' = r.work
    /\ UNCHANGED <<web, track, pc, length, gains, losses, max_altitude,
                   min_altitude, avg, approx, agg_i, prev>>

NextWork ==
    \/ Annotate
    \/ Stage1
    \/ Stage2
    \/ Rebuilder
    \/ Force
    \/ SelectCall
    \/ SelectAnySpan
    \/ SelectReturn
    \/ Aggregate
    \/ Finish

SpecWork == InitLong /\ [][NextWork]_vars

(* C22.  Taking the selector's pending spans from a work list in any order *)
(* flags exactly the points the recursive find_maximum_extremum_between    *)
(* flags on the same sequence.                                             *)
C22_AnyOrderSameExtrema ==
    (pc \in {"aggregate", "done"} \/ (pc = "selecting" /\ work = <<>>)) =>
        Extrema(points) =
            Extrema(find_maximum_extremum_between(1, Len(points),
                                                  ForceEnds(Unflagged(points))))

\* The span on the right of a split has been split again while the span on
\* its left, which will be split too, is still pending.
C22_Witness ==
    /\ pc = "selecting"
    /\ \E k \in 1..Len(work) :
           /\ work[k][1] = 1
           /\ work[k][2] < Len(points)
           /\ \E i \in (work[k][2] + 1)..(Len(points) - 1) : points[i].extremum
           /\ \E i \in 2..(work[k][2] - 1) :
                  DevGT(Deviation(points, 1, work[k][2], i), DevOf(ELE_THRESHOLD))

-----------------------------------------------------------------------------
(* Termination of the selector and of the pipeline.                        *)

\* One call of the selector: either the span is left alone, or it is split
\* at a point strictly inside it that was not flagged before and the two
\* calls that follow are on the spans left and right of that point.
ShrinkingCall ==
    LET start == Head(work)[1]
        end == Head(work)[2]
    IN  \/ /\ points' = points
           /\ work' = Tail(work)
        \/ \E max \in (start + 1)..(end - 1) :
               /\ ~points[max].extremum
               /\ points' = [points EXCEPT ![max].extremum = TRUE]
               /\ work' = <<<<start, max>>, <<max, end>>>> \o Tail(work)

(* C23.  Every call of find_maximum_extremum_between that recurses does so *)
(* on [start, max] and [max, end] with start < max < end, no index is      *)
(* chosen as a split point twice, and every run of the pipeline reaches a  *)
(* final result or an error.                                               *)
C23_Terminates ==
    /\ [][(pc = "selecting" /\ work # <<>>) => ShrinkingCall]_vars
    /\ <>(pc \in {"done", "error"})

\* A span produced by two nested splits is pending.
C23_Witness ==
    /\ pc = "selecting"
    /\ \E k \in 1..Len(work) :
           /\ work[k][1] > 1
           /\ work[k][2] < Len(points)
           /\ work[k][2] - work[k][1] >= 2

-----------------------------------------------------------------------------
(* Order of the stages.                                                    *)

\* The steps from one stage to the next; the aggregator's loop stays in
\* its stage.
StageEdges ==
    {<<"start", "stage1">>, <<"start", "error">>,
     <<"stage1", "stage2">>, <<"stage1", "force">>,
     <<"stage2", "rebuild">>, <<"stage2", "force">>,
     <<"rebuild", "force">>, <<"force", "select">>,
     <<"select", "aggregate">>, <<"aggregate", "aggregate">>,
     <<"aggregate", "done">>}

StageStep ==
    /\ <<pc, pc'>> \in StageEdges
    \* the two branches are the insufficient-relief exits
    /\ (pc = "stage1" /\ pc' = "force") => approx' = "false@544"
    /\ (pc = "stage2" /\ pc' = "force") => approx' = "false@569"
    \* Stage 2 runs only if Stage 1 did not exit
    /\ pc' = "stage2" =>
           approx' = "none" /\ Cardinality(InteriorSurvivors(points')) + 1 >= 2
    \* the rebuilder runs only if neither stage exited
    /\ pc' = "rebuild" =>
           approx' = "none" /\ Cardinality(InteriorSurvivors(points')) >= 2
    \* selector and aggregator follow whichever way the filter went
    /\ pc' = "select" => approx' # "none"
    /\ (pc = "aggregate" /\ pc' = "aggregate") => points' = points

(* C24.  The stages run in the order annotator, Stage 1, Stage 2,          *)
(* rebuilder, selector, aggregator; the only branches are the two          *)
(* insufficient-relief exits, which lead straight to the selector; Stage 2 *)
(* runs only if Stage 1 did not exit, the rebuilder only if neither did,   *)
(* and no step leads back to a stage already left, so a run that is not an *)
(* error runs the selector and then the aggregator once.                   *)
C24_StageOrder == [][StageStep]_vars

C24_Witness ==
    /\ pc = "done"
    /\ approx = "false@569"
    /\ gains > 0
    /\ losses > 0

-----------------------------------------------------------------------------
(* The curve the selector is given.                                        *)

\* Distance along the profile from its first point to its k-th point.
RECURSIVE ProfileDistance(_, _)
ProfileDistance(pts, k) ==
    IF k <= 1 THEN 0
    ELSE ProfileDistance(pts, k - 1) + Haversine(pts[k].point, pts[k - 1].point)

(* C25.  In every run the curve handed to the selector is a cumulative-    *)
(* distance curve: the distance coordinate of each point is its distance   *)
(* along the profile from the first point, so the coordinates do not       *)
(* decrease from the first point to the last.                              *)
C25_CumulativeCurve ==
    pc = "select" =>
        /\ \A k \in 1..Len(points) :
               points[k].distance = ProfileDistance(points, k)
        /\ \A k \in 2..Len(points) :
               points[k - 1].distance <= points[k].distance

-----------------------------------------------------------------------------
(* Totals against the raw waypoints.                                       *)

RawWaypoints == Flatten(track)

(* C26.  For every accepted track with at least 2 annotated points, on the *)
(* rebuilt and on the fallback path, gain minus loss is the elevation of   *)
(* the last raw waypoint minus the elevation of the first raw waypoint.    *)
C26_NetElevation ==
    (pc = "done" /\ Len(Annotated(track)) >= 2) =>
        gains - losses = RawWaypoints[Len(RawWaypoints)].ele - RawWaypoints[1].ele


\* Naive differencing of adjacent raw waypoints: the sum of the rises and
\* the sum of the falls.
RECURSIVE NaiveGain(_)
NaiveGain(wps) ==
    IF Len(wps) < 2 THEN 0
    ELSE (IF wps[2].ele > wps[1].ele THEN wps[2].ele - wps[1].ele ELSE 0)
         + NaiveGain(Tail(wps))

RECURSIVE NaiveLoss(_)
NaiveLoss(wps) ==
    IF Len(wps) < 2 THEN 0
    ELSE (IF wps[2].ele < wps[1].ele THEN wps[1].ele - wps[2].ele ELSE 0)
         + NaiveLoss(Tail(wps))

(* C27.  For every accepted track the reported gain is at most the sum of  *)
(* the positive elevation differences between adjacent raw waypoints and   *)
(* the reported loss at most the sum of the negative ones taken positive.  *)
C27_AtMostNaive ==
    pc \in {"aggregate", "done"} =>
        /\ gains <= NaiveGain(RawWaypoints)
        /\ losses <= NaiveLoss(RawWaypoints)

C27_Witness ==
    /\ pc = "done"
    /\ 0 < gains
    /\ gains < NaiveGain(RawWaypoints)
    /\ 0 < losses
    /\ losses < NaiveLoss(RawWaypoints)

-----------------------------------------------------------------------------
(* Size of the rebuilt profile.                                            *)

(* C28.  Whenever approximate_elevation_points returns Ok(true) the        *)
(* rebuilt profile has at least 4 points, the first, at least 2 interior   *)
(* points that passed the slope filter and the last, all marked survived;  *)
(* the rebuilder is only reached with at least 2 interior survivors of     *)
(* Stage 2.                                                                *)
C28_RebuiltAtLeastFour ==
    /\ pc = "rebuild" => Cardinality(InteriorSurvivors(points)) >= 2
    /\ Rebuilt =>
           /\ Len(points) >= 4
           /\ \A k \in 1..Len(points) : points[k].survived
           /\ \A k \in 2..(Len(points) - 1) :
                  ~TooSteep(points[k].elevation, points[k - 1].elevation,
                            Haversine(points[k].point, points[k - 1].point))

C28_Witness ==
    /\ Rebuilt
    /\ pc = "done"
    /\ Len(points) = 4
    /\ Len(Annotated(track)) = 5

-----------------------------------------------------------------------------
(* The upload flow (web_interface/upload_gpx.rs).  The handlers run on the *)
(* multi-threaded runtime of main.rs line 154 and share the two AtomicU64  *)
(* of AppState.alltrails_message_on; every store and every load is a step  *)
(* of its own.  Each admin opens the page of one message and then posts    *)
(* the form.                                                               *)

embed_vars ==
    <<track, pc, points, length, gains, losses, max_altitude, min_altitude,
      avg, approx, agg_i, prev, work>>

\* page, lines 20-55: the path names a channel and a message, the admin is
\* authenticated and the message is found.
PageRequest(a) ==
    /\ web.at[a] = "idle"
    /\ \E c \in ChannelIds, m \in MessageIds :
           web' = [web EXCEPT !.selected[a] = <<c, m>>, !.at[a] = "page_channel"]
    /\ UNCHANGED embed_vars

\* page, lines 57-60.
PageStoreChannel(a) ==
    /\ web.at[a] = "page_channel"
    /\ web' = [web EXCEPT !.channel = web.selected[a][1], !.at[a] = "page_message"]
    /\ UNCHANGED embed_vars

\* page, lines 62-67: the second store, then the redirect.
PageStoreMessage(a) ==
    /\ web.at[a] = "page_message"
    /\ web' = [web EXCEPT !.message = web.selected[a][2], !.at[a] = "form"]
    /\ UNCHANGED embed_vars

\* post, line 186.
PostLoadChannel(a) ==
    /\ web.at[a] = "form"
    /\ web' = [web EXCEPT !.loaded[a][1] = web.channel, !.at[a] = "post_message"]
    /\ UNCHANGED embed_vars

\* post, line 187.
PostLoadMessage(a) ==
    /\ web.at[a] = "post_message"
    /\ web' = [web EXCEPT !.loaded[a][2] = web.message, !.at[a] = "post_edit"]
    /\ UNCHANGED embed_vars

\* post, lines 189-252: the embed is built and the message of the loaded
\* ids is edited.
PostEdit(a) ==
    /\ web.at[a] = "post_edit"
    /\ web' = [web EXCEPT !.edited[a] = web.loaded[a], !.at[a] = "posted"]
    /\ UNCHANGED embed_vars

NextWeb ==
    \E a \in Admins :
        \/ PageRequest(a)
        \/ PageStoreChannel(a)
        \/ PageStoreMessage(a)
        \/ PostLoadChannel(a)
        \/ PostLoadMessage(a)
        \/ PostEdit(a)

InitWeb ==
    /\ track = <<>>
    /\ InitLocals

SpecWeb == InitWeb /\ [][NextWeb]_vars

(* C29.  With two admins using the upload flow at the same time, each      *)
(* upload post edits the message (channel id, message id) that the same    *)
(* admin selected with their own page request before it, in every          *)
(* interleaving.                                                           *)
C29_PostEditsOwnMessage ==
    \A a \in Admins :
        web.at[a] = "posted" => web.edited[a] = web.selected[a]

(* C30.  The (channel id, message id) pair a post has loaded is a pair     *)
(* written by one single page request: never the channel id of one page    *)
(* request with the message id of another.                                 *)
C30_LoadedPairIsOnePagesPair ==
    \A a \in Admins :
        web.at[a] \in {"post_edit", "posted"} =>
            \E b \in Admins :
                /\ web.at[b] # "idle"
                /\ web.loaded[a] = web.selected[b]

====
